---- MODULE Spec2Model ----
(***************************************************************************)
(* Job lifecycle and integrity analysis of the rappa document pipeline.    *)
(*                                                                         *)
(*   upload_document      app/api/upload.py                                *)
(*   process_document     app/workers/tasks.py (Celery task)               *)
(*   save_extracted_fields app/workers/tasks.py                            *)
(*   FraudDetectionService app/services/fraud_detection.py                 *)
(*   PDFClassifier         app/services/pdf_classifier.py                  *)
(*   DocumentProcessor     app/services/document_processor.py              *)
(*   GeminiService         app/services/gemini_service.py                  *)
(*   get_job_fields        app/api/fields.py                               *)
(*   get_job_results, delete_job  app/api/processing.py                    *)
(*                                                                         *)
(* The jobs table, the extracted_fields table, the broker queue and the    *)
(* worker's temp directory are the shared state; every db.commit() of the  *)
(* task is a step other tasks can interleave with.                         *)
(***************************************************************************)
EXTENDS Integers, Sequences, FiniteSets, TLC

\* ----------------------------------------------------------------- bounds
MaxJobs == 2          \* uploads per behaviour
MaxRedeliveries == 1  \* repeated deliveries of task messages (SpecRedeliver only)
RedeliverJobs == 1    \* jobs uploaded in behaviours with redelivery (SpecRedeliver only)
CrashJobs == 1        \* jobs uploaded in behaviours with worker crashes (SpecFair only)
ApiJobs == 1          \* jobs uploaded in behaviours with API requests (SpecApi only)
MaxIndicators == 3    \* metadata manipulation indicators fed to the analyzer
MaxIssues == 2        \* consistency issues fed to the analyzer
MaxFields == 3        \* extracted fields fed to the analyzer
MaxPages == 8         \* pages of a classified document
MaxImages == 5        \* content images of a classified document
MaxTextLength == 1200 \* characters of embedded text of a classified document

Users == {"u1", "u2"}
Contents == {"c1", "c2"}

\* ------------------------------------------------------------- JobStatus
QUEUED == "queued"
PROCESSING == "processing"
COMPLETED == "completed"
FAILED == "failed"
JobStatus == {QUEUED, PROCESSING, COMPLETED, FAILED}

NULL == "NULL"        \* a nullable column holding no value
None == -1            \* Optional[float] without a value

VARIABLES
  jobs,              \* jobs table: id -> row
  extracted_fields,  \* extracted_fields table: job id -> rows in insertion order
  queue,             \* broker: job id -> number of pending process_document messages
  tasks,             \* job id -> invocations of process_document, in delivery order
  temp_files,        \* job ids whose temp file job_<id>_<filename> exists on disk
  next_job_id,       \* autoincrement of jobs.id
  analysis,          \* inputs and report of a stand-alone perform_full_analysis call
  response,          \* the last response an API endpoint returned
  document           \* inputs and result of a stand-alone DocumentProcessor.process_document call

vars == <<jobs, extracted_fields, queue, tasks, temp_files, next_job_id, analysis, response, document>>

JobIds == 1..MaxJobs

\* calculate_file_hash: the SHA-256 digest is a function of the file content
calculate_file_hash(content) ==
  CASE content = "c1" -> "h1"
    [] content = "c2" -> "h2"

\* ----------------------------------------------------- extraction results
\* What document_processor.process_document can hand back for a file: the
\* extraction service's answer as extract_fields_from_text returns it
\* (success, document type, key/value pairs). Values are the strings the
\* service returned, and a key may come back more than once; `response` tells
\* what the service sent:
\*   "complete"     a JSON object with every key of the prompt's schema
\*   "incomplete"   a JSON object without them: result.get(...) fills in
\*                  "Unknown", [] and "" and success is True
\*   "unparseable"  json.loads raises: success is False
ExtractionResults == <<
  [success |-> TRUE, response |-> "complete",
   document_type |-> "Invoice", summary |-> "ok",
   extracted_data |-> << [key |-> "invoice_subtotal", value |-> "1000"],
                         [key |-> "invoice_tax", value |-> "180"],
                         [key |-> "invoice_total", value |-> "1180"] >>],
  [success |-> TRUE, response |-> "complete",
   document_type |-> "Invoice", summary |-> "",
   extracted_data |-> << [key |-> "invoice_subtotal", value |-> "1000"],
                         [key |-> "invoice_tax", value |-> "180"],
                         [key |-> "invoice_total", value |-> "1300"],
                         [key |-> "invoice_number", value |-> "Not found"],
                         [key |-> "vendor_name", value |-> ""],
                         [key |-> "invoice_tax", value |-> "180"] >>],
  [success |-> FALSE, response |-> "unparseable",
   document_type |-> "", summary |-> "",
   extracted_data |-> << >>],
  [success |-> TRUE, response |-> "incomplete",
   document_type |-> "Unknown", summary |-> "",
   extracted_data |-> << >>] >>

NoResult == 0

\* FraudDetectionService._extract_amount on the value strings above, in cents
\* (None when the text is empty or holds no digits)
_extract_amount(text) ==
  CASE text = "1000" -> 100000
    [] text = "180" -> 18000
    [] text = "1180" -> 118000
    [] text = "1300" -> 130000
    [] text = "0" -> 0
    [] OTHER -> None

\* Python truthiness of an Optional[float]: None and 0.0 are both falsy
Truthy(amount) == amount # None /\ amount # 0

Abs(x) == IF x < 0 THEN -x ELSE x

RECURSIVE SeqSum(_)
SeqSum(s) == IF s = << >> THEN 0 ELSE Head(s) + SeqSum(Tail(s))

\* field_dict[name]: the value of the last field with that name, '' if absent
FieldValue(fields_list, name) ==
  LET idx == {i \in 1..Len(fields_list) : fields_list[i].field_name = name}
  IN IF idx = {} THEN ""
     ELSE fields_list[CHOOSE i \in idx : \A k \in idx : k <= i].current_value

\* ------------------------------------------------ risk levels of the parts
metadata_risk_level(indicators) ==
  IF Len(indicators) >= 2 THEN "high"
  ELSE IF indicators # << >> THEN "medium" ELSE "low"

consistency_risk_level(issues) ==
  IF \E i \in 1..Len(issues) : issues[i].severity = "high" THEN "high"
  ELSE IF issues # << >> THEN "medium" ELSE "low"

\* average confidence = total / n in hundredths (0 when n = 0), so
\* avg < 0.60 is total < 60 * n; low = number of flagged fields
confidence_risk_level(total, n, low) ==
  LET avg_below(t) == IF n = 0 THEN 0 < t ELSE total < t * n
  IN IF avg_below(60) \/ low >= 3 THEN "high"
     ELSE IF avg_below(75) \/ low > 0 THEN "medium" ELSE "low"

\* ---------------------------------------------------- FraudDetectionService
\* check_duplicate without the status filter
check_duplicate_any_status(file_hash, user_id, table) ==
  LET hits == {k \in DOMAIN table : /\ table[k].user_id = user_id
                                    /\ table[k].file_hash = file_hash}
  IN IF hits = {} THEN 0 ELSE CHOOSE k \in hits : \A m \in hits : k <= m

\* check_duplicate without the user filter
check_duplicate_any_user(file_hash, user_id, table) ==
  LET hits == {k \in DOMAIN table : /\ table[k].file_hash = file_hash
                                    /\ table[k].status = COMPLETED}
  IN IF hits = {} THEN 0 ELSE CHOOSE k \in hits : \A m \in hits : k <= m

\* check_duplicate counting jobs that are still being processed
check_duplicate_in_progress(file_hash, user_id, table) ==
  LET hits == {k \in DOMAIN table : /\ table[k].user_id = user_id
                                    /\ table[k].file_hash = file_hash
                                    /\ table[k].status \in {PROCESSING, COMPLETED}}
  IN IF hits = {} THEN 0 ELSE CHOOSE k \in hits : \A m \in hits : k <= m

\* check_duplicate: first job of the same user with the same hash whose status
\* is "completed"; 0 stands for None, otherwise the id of the job found
check_duplicate(file_hash, user_id, table) ==
  LET hits == {k \in DOMAIN table : /\ table[k].user_id = user_id
                                    /\ table[k].file_hash = file_hash
                                    /\ table[k].status = COMPLETED}
  IN IF hits = {} THEN 0 ELSE CHOOSE k \in hits : \A m \in hits : k <= m

\* analyze_image_metadata: the indicators are a property of the file; a PDF
\* yields none, an image is read for EXIF Software / DateTime, and a file that
\* cannot be opened yields "Unable to extract metadata"
analyze_image_metadata(content, on_disk) ==
  LET indicators ==
        CASE content = "c1" -> << >>
          [] content = "c2" /\ on_disk ->
               <<"Document edited with image editing software",
                 "Missing creation timestamp">>
          [] OTHER -> <<"Unable to extract metadata">>
  IN [manipulation_indicators |-> indicators,
      risk_level |-> metadata_risk_level(indicators)]

\* check_text_consistency: subtotal + tax against total (1 cent tolerance);
\* the date fields and the amount patterns do not occur in ExtractionResults
check_text_consistency(fields_list) ==
  LET total_amount == _extract_amount(FieldValue(fields_list, "invoice_total"))
      subtotal == _extract_amount(FieldValue(fields_list, "invoice_subtotal"))
      tax == _extract_amount(FieldValue(fields_list, "invoice_tax"))
      issues ==
        IF /\ Truthy(total_amount) /\ Truthy(subtotal) /\ Truthy(tax)
           /\ Abs((subtotal + tax) - total_amount) > 1
        THEN <<[issue |-> "Total amount mismatch", severity |-> "high"]>>
        ELSE << >>
  IN [consistency_issues |-> issues,
      risk_level |-> consistency_risk_level(issues)]

\* float(confidence) of the confidence column, in hundredths
ConfFloat(confidence) ==
  CASE confidence = "0.90" -> 90
    [] confidence = "0.80" -> 80
    [] confidence = "0.70" -> 70
    [] confidence = "0.65" -> 65
    [] confidence = "0.40" -> 40

critical_fields ==
  {"invoice_total", "invoice_number", "invoice_date", "customer_name", "vendor_name"}

\* confidence_map: the textual labels, in hundredths
ConfidenceLabels == {"high", "medium", "low", "very high", "very low"}

confidence_map(label) ==
  CASE label = "high" -> 90
    [] label = "medium" -> 70
    [] label = "low" -> 50
    [] label = "very high" -> 95
    [] label = "very low" -> 30

\* the exception float(conf) raises on a string that is no number
ValueError == [raised |-> "ValueError"]

\* analyze_confidence_scores: the first loop maps a label through
\* confidence_map (any other string through float) and flags critical fields
\* below 0.70 and any field below 0.50; the second loop averages float(conf)
\* over all fields (0 when there are none), which raises on a label
analyze_confidence_scores(fields_list) ==
  LET n == Len(fields_list)
      conf_float(i) ==
        IF fields_list[i].confidence \in ConfidenceLabels
        THEN confidence_map(fields_list[i].confidence)
        ELSE ConfFloat(fields_list[i].confidence)
      low == {i \in 1..n :
                \/ fields_list[i].field_name \in critical_fields /\ conf_float(i) < 70
                \/ conf_float(i) < 50}
      total == SeqSum([i \in 1..n |-> ConfFloat(fields_list[i].confidence)])
  IN IF \E i \in 1..n : fields_list[i].confidence \in ConfidenceLabels
     THEN ValueError
     ELSE [low_confidence_fields |-> Cardinality(low),
           risk_level |-> confidence_risk_level(total, n, Cardinality(low))]

SubScore3(level) == IF level = "high" THEN 3 ELSE IF level = "medium" THEN 1 ELSE 0
SubScore2(level) == IF level = "high" THEN 2 ELSE IF level = "medium" THEN 1 ELSE 0

\* the thresholds taken strictly
OverallRisk_strict(total_risk_score) ==
  IF total_risk_score > 6 THEN "high"
  ELSE IF total_risk_score > 3 THEN "medium" ELSE "low"

OverallRisk(total_risk_score) ==
  IF total_risk_score >= 6 THEN "high"
  ELSE IF total_risk_score >= 3 THEN "medium" ELSE "low"

\* perform_full_analysis, from the results of its four sub-analyses
\* (duplicate_check: 0 for None, else the original job id)
perform_full_analysis(duplicate_check, metadata_analysis, consistency_check, confidence_analysis) ==
  LET risk_scores ==
        [duplicate |-> IF duplicate_check # 0 THEN 3 ELSE 0,
         metadata |-> SubScore2(metadata_analysis.risk_level),
         consistency |-> SubScore3(consistency_check.risk_level),
         confidence |-> SubScore2(confidence_analysis.risk_level)]
      total_risk_score == risk_scores.duplicate + risk_scores.metadata
                          + risk_scores.consistency + risk_scores.confidence
      all_flags ==
        (IF duplicate_check # 0 THEN <<"Duplicate document detected">> ELSE << >>)
        \o metadata_analysis.manipulation_indicators
        \o [i \in 1..Len(consistency_check.consistency_issues) |->
              consistency_check.consistency_issues[i].issue]
        \o (IF confidence_analysis.low_confidence_fields > 0
            THEN <<"fields with low confidence">> ELSE << >>)
  IN [overall_risk_level |-> OverallRisk(total_risk_score),
      risk_score |-> total_risk_score,
      max_risk_score |-> 9,
      risk_scores |-> risk_scores,
      flags |-> all_flags,
      original_job_id |-> duplicate_check]

\* ------------------------------------------------------------ ExtractedField
\* a new row of extracted_fields: edited_value is NULL and is_edited is False
\* until a user edits the field
ExtractedField(field_name, original_value, confidence) ==
  [field_name |-> field_name, original_value |-> original_value,
   confidence |-> confidence, edited_value |-> NULL, is_edited |-> FALSE]

\* the current_value property with the edit flag ignored
current_value_ignoring_flag(field) ==
  IF field.edited_value # NULL THEN field.edited_value ELSE field.original_value

\* ExtractedField.current_value: the edited value if the field is edited,
\* otherwise the original one
current_value(field) ==
  IF field.is_edited THEN field.edited_value ELSE field.original_value

\* ------------------------------------------------------ save_extracted_fields
RECURSIVE DataRows_keep_not_found(_)
\* the pairs loop testing the value for emptiness only
DataRows_keep_not_found(extracted_data) ==
  IF extracted_data = << >> THEN << >>
  ELSE LET item == Head(extracted_data)
       IN (IF item.value # ""
           THEN <<ExtractedField(item.key, item.value, "0.70")>>
           ELSE << >>) \o DataRows_keep_not_found(Tail(extracted_data))

RECURSIVE DataRows(_)
\* one row per returned pair whose value is non-empty and not "Not found"
DataRows(extracted_data) ==
  IF extracted_data = << >> THEN << >>
  ELSE LET item == Head(extracted_data)
       IN (IF item.value # "" /\ item.value # "Not found"
           THEN <<ExtractedField(item.key, item.value, "0.70")>>
           ELSE << >>) \o DataRows(Tail(extracted_data))

\* the metadata rows (prefixed with _), written only for non-empty values
MetadataRows(result_data) ==
  LET row(name, value) ==
        IF value # "" THEN <<ExtractedField(name, value, "0.90")>> ELSE << >>
  IN row("_document_type", result_data.document_type)
     \o row("_confidence", "0.9")
     \o row("_summary", result_data.summary)
     \o row("_method", "gemini_text")
     \o row("_pdf_type", "text_only")

save_extracted_fields(rows, result_data) ==
  rows \o MetadataRows(result_data) \o DataRows(result_data.extracted_data)

\* fields_list built by process_document from the job's rows:
\* field.current_value or field.original_value (tasks.py 140-146)
FieldsList(rows) ==
  [i \in 1..Len(rows) |->
     [field_name |-> rows[i].field_name,
      current_value |-> IF current_value(rows[i]) \in {NULL, ""}
                        THEN rows[i].original_value
                        ELSE current_value(rows[i]),
      confidence |-> rows[i].confidence]]

\* ------------------------------------------------------------------- state
NoReport == << >>     \* jobs.fraud_analysis IS NULL

\* locals of one invocation after line 114: job loaded, temp_file path assigned
NewTask == [pc |-> "download", job |-> TRUE, temp_file |-> TRUE,
            file_hash |-> NULL, result |-> NoResult, error |-> NULL]

NoAnalysis == [phase |-> "off"]

NoResponse == [endpoint |-> "none"]

NoDocument == [phase |-> "off"]

Init ==
  /\ jobs = << >>
  /\ extracted_fields = << >>
  /\ queue = [j \in JobIds |-> 0]
  /\ tasks = [j \in JobIds |-> << >>]
  /\ temp_files = {}
  /\ next_job_id = 1
  /\ analysis = NoAnalysis
  /\ response = NoResponse
  /\ document = NoDocument

At(j, a, pc) == a \in 1..Len(tasks[j]) /\ tasks[j][a].pc = pc

\* the invocation a of job j moves on with the given local changes
Goto(j, a, t) == tasks' = [tasks EXCEPT ![j][a] = t]

\* an exception inside the try block: control passes to the handler
Raise(j, a, message) ==
  Goto(j, a, [tasks[j][a] EXCEPT !.pc = "except", !.error = message])

\* upload_document enqueuing the task twice
upload_document_twice(user, content, enqueued) ==
  /\ next_job_id <= MaxJobs
  /\ jobs' = jobs @@ (next_job_id :>
        [user_id |-> user, s3_path |-> content, file_hash |-> NULL,
         status |-> QUEUED, error_message |-> NULL,
         fraud_analysis |-> NoReport, completed_at |-> NULL])
  /\ extracted_fields' = extracted_fields @@ (next_job_id :> << >>)
  /\ queue' = IF enqueued THEN [queue EXCEPT ![next_job_id] = 2] ELSE queue
  /\ next_job_id' = next_job_id + 1
  /\ UNCHANGED <<tasks, temp_files, analysis, response, document>>

\* ----------------------------------------------------------- upload_document
\* Commits the Job row as QUEUED, deducts credits and enqueues the task; when
\* credit deduction or the enqueue raises, the committed row stays behind.
upload_document(user, content, enqueued) ==
  /\ next_job_id <= MaxJobs
  /\ jobs' = jobs @@ (next_job_id :>
        [user_id |-> user, s3_path |-> content, file_hash |-> NULL,
         status |-> QUEUED, error_message |-> NULL,
         fraud_analysis |-> NoReport, completed_at |-> NULL])
  /\ extracted_fields' = extracted_fields @@ (next_job_id :> << >>)
  /\ queue' = IF enqueued THEN [queue EXCEPT ![next_job_id] = 1] ELSE queue
  /\ next_job_id' = next_job_id + 1
  /\ UNCHANGED <<tasks, temp_files, analysis, response, document>>

\* ---------------------------------------------------------- process_document
\* A worker takes a message for job j off the queue, loads the row and commits
\* status = PROCESSING (tasks.py 98-105).
Begin(j) ==
  /\ queue[j] > 0
  /\ queue' = [queue EXCEPT ![j] = @ - 1]
  /\ IF j \in DOMAIN jobs
     THEN /\ jobs' = [jobs EXCEPT ![j].status = PROCESSING]
          /\ tasks' = [tasks EXCEPT ![j] = Append(@, NewTask)]
     ELSE /\ tasks' = [tasks EXCEPT ![j] =
                 Append(@, [NewTask EXCEPT !.pc = "returned", !.job = FALSE,
                                         !.temp_file = FALSE])]
          /\ UNCHANGED jobs
  /\ UNCHANGED <<extracted_fields, temp_files, next_job_id, analysis, response, document>>

\* storage_service.download_file into job_<id>_<filename> (tasks.py 112-117);
\* a failed download may leave a partial file behind
Download(j, a) ==
  /\ At(j, a, "download")
  /\ \/ /\ temp_files' = temp_files \cup {j}
        /\ Goto(j, a, [tasks[j][a] EXCEPT !.pc = "hash"])
     \/ /\ \E partial \in BOOLEAN :
             temp_files' = IF partial THEN temp_files \cup {j} ELSE temp_files
        /\ Raise(j, a, "download failed")
  /\ UNCHANGED <<jobs, extracted_fields, queue, next_job_id, analysis, response, document>>

\* calculate_file_hash of the temp file, job.file_hash = file_hash, commit
\* (tasks.py 120-123)
Hash(j, a) ==
  /\ At(j, a, "hash")
  /\ \/ /\ j \in temp_files /\ j \in DOMAIN jobs
        /\ LET file_hash == calculate_file_hash(jobs[j].s3_path)
           IN /\ jobs' = [jobs EXCEPT ![j].file_hash = file_hash]
              /\ Goto(j, a, [tasks[j][a] EXCEPT !.pc = "process",
                                                !.file_hash = file_hash])
     \/ /\ Raise(j, a, "hash failed")
        /\ UNCHANGED jobs
  /\ UNCHANGED <<extracted_fields, queue, temp_files, next_job_id, analysis, response, document>>

\* document_processor.process_document(temp_file) and the success check
\* (tasks.py 129-133): classification or OCR may raise, the extraction
\* service may answer success = False, which is raised as ValueError
Process(j, a) ==
  /\ At(j, a, "process")
  /\ \/ /\ j \in temp_files
        /\ \E r \in 1..Len(ExtractionResults) :
             IF ExtractionResults[r].success
             THEN Goto(j, a, [tasks[j][a] EXCEPT !.pc = "save", !.result = r])
             ELSE Raise(j, a, "Document processing failed")
     \/ Raise(j, a, "classification failed")
  /\ UNCHANGED <<jobs, extracted_fields, queue, temp_files, next_job_id, analysis, response, document>>

\* save_extracted_fields(db, job_id, result): rows added and committed
\* together; a failing commit persists none of them (tasks.py 137). The rows
\* reference jobs.id, so the insert fails once the job row is gone.
Save(j, a) ==
  /\ At(j, a, "save")
  /\ \/ /\ j \in DOMAIN jobs
        /\ extracted_fields' = [extracted_fields EXCEPT ![j] =
              save_extracted_fields(@, ExtractionResults[tasks[j][a].result])]
        /\ Goto(j, a, [tasks[j][a] EXCEPT !.pc = "analyze"])
     \/ /\ Raise(j, a, "save failed")
        /\ UNCHANGED extracted_fields
  /\ UNCHANGED <<jobs, queue, temp_files, next_job_id, analysis, response, document>>

\* the report process_document obtains for job j when the jobs table is `table`
FraudAnalysisIn(table, j, a) ==
  LET fields_list == FieldsList(extracted_fields[j])
  IN perform_full_analysis(
       check_duplicate(tasks[j][a].file_hash, jobs[j].user_id, table),
       analyze_image_metadata(jobs[j].s3_path, j \in temp_files),
       check_text_consistency(fields_list),
       analyze_confidence_scores(fields_list))

FraudAnalysis(j, a) == FraudAnalysisIn(jobs, j, a)

\* the analysis step going on to completion without committing the report
Analyze_uncommitted(j, a) ==
  /\ At(j, a, "analyze")
  /\ \/ Goto(j, a, [tasks[j][a] EXCEPT !.pc = "complete"])
     \/ Raise(j, a, "analysis failed")
  /\ UNCHANGED <<jobs, extracted_fields, queue, temp_files, next_job_id, analysis, response, document>>

\* query of the job's rows, perform_full_analysis, job.fraud_analysis = report,
\* commit (tasks.py 140-160)
Analyze(j, a) ==
  /\ At(j, a, "analyze")
  /\ \/ /\ j \in DOMAIN jobs
        /\ jobs' = [jobs EXCEPT ![j].fraud_analysis = <<FraudAnalysis(j, a)>>]
        /\ Goto(j, a, [tasks[j][a] EXCEPT !.pc = "complete"])
     \/ /\ Raise(j, a, "analysis failed")
        /\ UNCHANGED jobs
  /\ UNCHANGED <<extracted_fields, queue, temp_files, next_job_id, analysis, response, document>>

\* the status write refusing a job whose report says high risk
Complete_gated(j, a) ==
  /\ At(j, a, "complete")
  /\ \/ /\ j \in DOMAIN jobs
        /\ Head(jobs[j].fraud_analysis).overall_risk_level # "high"
        /\ jobs' = [jobs EXCEPT ![j].status = COMPLETED, ![j].completed_at = "set"]
        /\ Goto(j, a, [tasks[j][a] EXCEPT !.pc = "cleanup"])
     \/ /\ j \in DOMAIN jobs
        /\ Head(jobs[j].fraud_analysis).overall_risk_level = "high"
        /\ Raise(j, a, "risk too high")
        /\ UNCHANGED jobs
     \/ /\ Raise(j, a, "status write failed")
        /\ UNCHANGED jobs
  /\ UNCHANGED <<extracted_fields, queue, temp_files, next_job_id, analysis, response, document>>

\* job.status = COMPLETED, job.completed_at = now, commit (tasks.py 165-167);
\* the write does not look at the report. The commit may raise, and it does
\* when the job row is gone.
Complete(j, a) ==
  /\ At(j, a, "complete")
  /\ \/ /\ j \in DOMAIN jobs
        /\ jobs' = [jobs EXCEPT ![j].status = COMPLETED, ![j].completed_at = "set"]
        /\ Goto(j, a, [tasks[j][a] EXCEPT !.pc = "cleanup"])
     \/ /\ Raise(j, a, "status write failed")
        /\ UNCHANGED jobs
  /\ UNCHANGED <<extracted_fields, queue, temp_files, next_job_id, analysis, response, document>>

\* if temp_file.exists(): temp_file.unlink(), still inside the try block
\* (tasks.py 170-171); then the task returns
Cleanup(j, a) ==
  /\ At(j, a, "cleanup")
  /\ \/ /\ temp_files' = temp_files \ {j}
        /\ Goto(j, a, [tasks[j][a] EXCEPT !.pc = "returned"])
     \/ /\ j \in temp_files
        /\ Raise(j, a, "unlink failed")
        /\ UNCHANGED temp_files
  /\ UNCHANGED <<jobs, extracted_fields, queue, next_job_id, analysis, response, document>>

\* the handler's status write: job.status = FAILED, job.error_message = str(e),
\* job.completed_at = now, commit (tasks.py 193-197)
RecordFailure(j, a) ==
  IF tasks[j][a].job
  THEN [jobs EXCEPT ![j].status = FAILED,
                    ![j].error_message = tasks[j][a].error,
                    ![j].completed_at = "set"]
  ELSE jobs

\* except Exception as e (tasks.py 189-208): if the job was loaded, commit
\* FAILED with str(e) and the completion time, then unlink the temp file and
\* return; when the unlink or that commit raises, the exception leaves the
\* task, in the latter case before the unlink is reached. The commit raises
\* when the job row is gone (the UPDATE matches no row).
Except(j, a) ==
  /\ At(j, a, "except")
  /\ \/ /\ j \in DOMAIN jobs
        /\ jobs' = RecordFailure(j, a)
        /\ temp_files' = IF tasks[j][a].temp_file THEN temp_files \ {j}
                         ELSE temp_files
        /\ Goto(j, a, [tasks[j][a] EXCEPT !.pc = "returned"])
     \/ /\ tasks[j][a].temp_file /\ j \in temp_files /\ j \in DOMAIN jobs
        /\ jobs' = RecordFailure(j, a)
        /\ Goto(j, a, [tasks[j][a] EXCEPT !.pc = "raised"])
        /\ UNCHANGED temp_files
     \/ /\ tasks[j][a].job
        /\ Goto(j, a, [tasks[j][a] EXCEPT !.pc = "raised"])
        /\ UNCHANGED <<jobs, temp_files>>
  /\ UNCHANGED <<extracted_fields, queue, next_job_id, analysis, response, document>>

\* the broker hands an already delivered message to a worker once more
Redeliver(j) ==
  /\ tasks[j] # << >>
  /\ Len(tasks[j]) + queue[j] < 1 + MaxRedeliveries
  /\ queue' = [queue EXCEPT ![j] = @ + 1]
  /\ UNCHANGED <<jobs, extracted_fields, tasks, temp_files, next_job_id, analysis, response, document>>

Attempts == 1..(1 + MaxRedeliveries)

Next ==
  \/ \E user \in Users, content \in Contents, enqueued \in BOOLEAN :
       upload_document(user, content, enqueued)
  \/ \E j \in JobIds : Begin(j)
  \/ \E j \in JobIds, a \in Attempts : Download(j, a)
  \/ \E j \in JobIds, a \in Attempts : Hash(j, a)
  \/ \E j \in JobIds, a \in Attempts : Process(j, a)
  \/ \E j \in JobIds, a \in Attempts : Save(j, a)
  \/ \E j \in JobIds, a \in Attempts : Analyze(j, a)
  \/ \E j \in JobIds, a \in Attempts : Complete(j, a)
  \/ \E j \in JobIds, a \in Attempts : Cleanup(j, a)
  \/ \E j \in JobIds, a \in Attempts : Except(j, a)

\* the system as deployed: upload_document is the only producer of messages
\* and every message is delivered once
Spec == Init /\ [][Next]_vars

\* process_document invoked again for a job id it was already invoked for
NextRedeliver ==
  \/ \E user \in Users, content \in Contents, enqueued \in BOOLEAN :
       next_job_id <= RedeliverJobs /\ upload_document(user, content, enqueued)
  \/ \E j \in JobIds : Redeliver(j)
  \/ \E j \in JobIds : Begin(j)
  \/ \E j \in JobIds, a \in Attempts : Download(j, a)
  \/ \E j \in JobIds, a \in Attempts : Hash(j, a)
  \/ \E j \in JobIds, a \in Attempts : Process(j, a)
  \/ \E j \in JobIds, a \in Attempts : Save(j, a)
  \/ \E j \in JobIds, a \in Attempts : Analyze(j, a)
  \/ \E j \in JobIds, a \in Attempts : Complete(j, a)
  \/ \E j \in JobIds, a \in Attempts : Cleanup(j, a)
  \/ \E j \in JobIds, a \in Attempts : Except(j, a)

SpecRedeliver == Init /\ [][NextRedeliver]_vars

\* ------------------------------------------------------------ API endpoints
\* the response of an endpoint to `user` asking for job `job_id`
Reply(endpoint, user, job_id, status_code, fields) ==
  [endpoint |-> endpoint, user |-> user, job_id |-> job_id,
   status_code |-> status_code, fields |-> fields]

\* GET /fields/job/{job_id}: the job must exist and belong to the user (else
\* 404); its rows are returned whatever the job's status (fields.py 72-101)
get_job_fields(user, job_id) ==
  /\ response' =
       IF job_id \in DOMAIN jobs /\ jobs[job_id].user_id = user
       THEN Reply("get_job_fields", user, job_id, 200, extracted_fields[job_id])
       ELSE Reply("get_job_fields", user, job_id, 404, << >>)
  /\ UNCHANGED <<jobs, extracted_fields, queue, tasks, temp_files, next_job_id,
                 analysis, document>>

\* the checks shared by the two results endpoints: 404 without the job, 403
\* for another user's job, 400 unless the job is COMPLETED
ResultsReply(endpoint, user, job_id) ==
  IF job_id \notin DOMAIN jobs THEN Reply(endpoint, user, job_id, 404, << >>)
  ELSE IF jobs[job_id].user_id # user THEN Reply(endpoint, user, job_id, 403, << >>)
  ELSE IF jobs[job_id].status # COMPLETED THEN Reply(endpoint, user, job_id, 400, << >>)
  ELSE Reply(endpoint, user, job_id, 200, extracted_fields[job_id])

\* GET /processing/results/{job_id} (processing.py 126-155)
get_job_results(user, job_id) ==
  /\ response' = ResultsReply("get_job_results", user, job_id)
  /\ UNCHANGED <<jobs, extracted_fields, queue, tasks, temp_files, next_job_id,
                 analysis, document>>

\* GET /processing/results/{job_id}/enhanced: the same checks, the rows split
\* into metadata and data (processing.py 174-200)
get_job_results_enhanced(user, job_id) ==
  /\ response' = ResultsReply("get_job_results_enhanced", user, job_id)
  /\ UNCHANGED <<jobs, extracted_fields, queue, tasks, temp_files, next_job_id,
                 analysis, document>>

\* delete_job leaving the rows of the job behind
delete_job_without_cascade(user, job_id) ==
  /\ IF job_id \notin DOMAIN jobs
     THEN /\ response' = Reply("delete_job", user, job_id, 404, << >>)
          /\ UNCHANGED <<jobs, extracted_fields>>
     ELSE IF jobs[job_id].user_id # user
     THEN /\ response' = Reply("delete_job", user, job_id, 403, << >>)
          /\ UNCHANGED <<jobs, extracted_fields>>
     ELSE \/ /\ jobs' = [k \in DOMAIN jobs \ {job_id} |-> jobs[k]]
             /\ response' = Reply("delete_job", user, job_id, 200, << >>)
             /\ UNCHANGED extracted_fields
          \/ /\ response' = Reply("delete_job", user, job_id, 500, << >>)
             /\ UNCHANGED <<jobs, extracted_fields>>
  /\ UNCHANGED <<queue, tasks, temp_files, next_job_id, analysis, document>>

\* DELETE /processing/{job_id}: 404 without the job, 403 for another user's
\* job; otherwise db.delete(job) and commit, whatever the job's status; the
\* rows of the job go with it (relationship cascade and ON DELETE CASCADE).
\* A failing commit deletes nothing. (processing.py 385-409)
delete_job(user, job_id) ==
  /\ IF job_id \notin DOMAIN jobs
     THEN /\ response' = Reply("delete_job", user, job_id, 404, << >>)
          /\ UNCHANGED <<jobs, extracted_fields>>
     ELSE IF jobs[job_id].user_id # user
     THEN /\ response' = Reply("delete_job", user, job_id, 403, << >>)
          /\ UNCHANGED <<jobs, extracted_fields>>
     ELSE \/ /\ jobs' = [k \in DOMAIN jobs \ {job_id} |-> jobs[k]]
             /\ extracted_fields' = [extracted_fields EXCEPT ![job_id] = << >>]
             /\ response' = Reply("delete_job", user, job_id, 200, << >>)
          \/ /\ response' = Reply("delete_job", user, job_id, 500, << >>)
             /\ UNCHANGED <<jobs, extracted_fields>>
  /\ UNCHANGED <<queue, tasks, temp_files, next_job_id, analysis, document>>

NextApi ==
  \/ \E user \in Users, content \in Contents, enqueued \in BOOLEAN :
       next_job_id <= ApiJobs /\ upload_document(user, content, enqueued)
  \/ \E j \in JobIds : Begin(j)
  \/ \E j \in JobIds, a \in Attempts : Download(j, a)
  \/ \E j \in JobIds, a \in Attempts : Hash(j, a)
  \/ \E j \in JobIds, a \in Attempts : Process(j, a)
  \/ \E j \in JobIds, a \in Attempts : Save(j, a)
  \/ \E j \in JobIds, a \in Attempts : Analyze(j, a)
  \/ \E j \in JobIds, a \in Attempts : Complete(j, a)
  \/ \E j \in JobIds, a \in Attempts : Cleanup(j, a)
  \/ \E j \in JobIds, a \in Attempts : Except(j, a)
  \/ \E user \in Users, j \in JobIds : get_job_fields(user, j)
  \/ \E user \in Users, j \in JobIds : get_job_results(user, j)
  \/ \E user \in Users, j \in JobIds : get_job_results_enhanced(user, j)
  \/ \E user \in Users, j \in JobIds : delete_job(user, j)

\* the worker together with the read and delete endpoints
SpecApi == Init /\ [][NextApi]_vars

\* ------------------------------------------------------------- field edits
FieldJobs == 1        \* jobs uploaded in behaviours with field edits (SpecFields only)
MaxEditFields == 2    \* rows of a job the edit requests address
MaxUpdates == 2       \* entries of one batch update request

\* a row is addressed by its job and its position among the job's rows (ids
\* are handed out in insertion order)
FieldIds == (1..FieldJobs) \X (1..MaxEditFields)

EditedValues == {"", "x"}

\* the row the id addresses exists and its job belongs to the user
OwnField(user, field_id) ==
  /\ field_id[1] \in DOMAIN jobs
  /\ jobs[field_id[1]].user_id = user
  /\ field_id[2] \in 1..Len(extracted_fields[field_id[1]])

FieldReply(endpoint, field_id, status_code) ==
  [endpoint |-> endpoint, field_id |-> field_id, status_code |-> status_code]

\* PATCH /fields/{field_id}: 404 unless the field exists in a job of the user;
\* edited_value = request.edited_value, is_edited = True, commit; a failing
\* commit changes nothing (fields.py 125-141)
update_field(user, field_id, edited_value) ==
  /\ IF ~OwnField(user, field_id)
     THEN /\ response' = FieldReply("update_field", field_id, 404)
          /\ UNCHANGED extracted_fields
     ELSE \/ /\ extracted_fields' =
                  [extracted_fields EXCEPT ![field_id[1]][field_id[2]] =
                     [@ EXCEPT !.edited_value = edited_value, !.is_edited = TRUE]]
             /\ response' = FieldReply("update_field", field_id, 200)
          \/ /\ response' = FieldReply("update_field", field_id, 500)
             /\ UNCHANGED extracted_fields
  /\ UNCHANGED <<jobs, queue, tasks, temp_files, next_job_id, analysis, document>>

\* POST /fields/job/{job_id}/batch-update: 404 unless the job is the user's;
\* every update whose field is a row of the job sets edited_value and
\* is_edited = True, the others are reported as failed; one commit at the end
\* (fields.py 177-225)
batch_update_fields(user, job_id, updates) ==
  /\ IF ~(job_id \in DOMAIN jobs /\ jobs[job_id].user_id = user)
     THEN /\ response' = FieldReply("batch_update_fields", <<job_id, 0>>, 404)
          /\ UNCHANGED extracted_fields
     ELSE \/ /\ extracted_fields' =
                  [extracted_fields EXCEPT ![job_id] =
                     [i \in 1..Len(@) |->
                        LET hits == {k \in 1..Len(updates) :
                                       updates[k].field_id = <<job_id, i>>}
                            last == CHOOSE k \in hits : \A m \in hits : m <= k
                        IN IF hits = {} THEN @[i]
                           ELSE [@[i] EXCEPT !.edited_value = updates[last].edited_value,
                                             !.is_edited = TRUE]]]
             /\ response' = FieldReply("batch_update_fields", <<job_id, 0>>, 200)
          \/ /\ response' = FieldReply("batch_update_fields", <<job_id, 0>>, 500)
             /\ UNCHANGED extracted_fields
  /\ UNCHANGED <<jobs, queue, tasks, temp_files, next_job_id, analysis, document>>

\* reset_field clearing the flag and leaving the edited value in place
reset_field_flag_only(user, field_id) ==
  /\ IF ~OwnField(user, field_id)
     THEN /\ response' = FieldReply("reset_field", field_id, 404)
          /\ UNCHANGED extracted_fields
     ELSE \/ /\ extracted_fields' =
                  [extracted_fields EXCEPT ![field_id[1]][field_id[2]] =
                     [@ EXCEPT !.is_edited = FALSE]]
             /\ response' = FieldReply("reset_field", field_id, 200)
          \/ /\ response' = FieldReply("reset_field", field_id, 500)
             /\ UNCHANGED extracted_fields
  /\ UNCHANGED <<jobs, queue, tasks, temp_files, next_job_id, analysis, document>>

\* POST /fields/{field_id}/reset: 404 unless the field exists in a job of the
\* user; edited_value = None, is_edited = False, commit (fields.py 263-279)
reset_field(user, field_id) ==
  /\ IF ~OwnField(user, field_id)
     THEN /\ response' = FieldReply("reset_field", field_id, 404)
          /\ UNCHANGED extracted_fields
     ELSE \/ /\ extracted_fields' =
                  [extracted_fields EXCEPT ![field_id[1]][field_id[2]] =
                     [@ EXCEPT !.edited_value = NULL, !.is_edited = FALSE]]
             /\ response' = FieldReply("reset_field", field_id, 200)
          \/ /\ response' = FieldReply("reset_field", field_id, 500)
             /\ UNCHANGED extracted_fields
  /\ UNCHANGED <<jobs, queue, tasks, temp_files, next_job_id, analysis, document>>

\* the entries of a batch update request
Updates == [field_id : FieldIds, edited_value : EditedValues]

NextFields ==
  \/ \E user \in Users, content \in Contents, enqueued \in BOOLEAN :
       next_job_id <= FieldJobs /\ upload_document(user, content, enqueued)
  \/ \E j \in JobIds : Begin(j)
  \/ \E j \in JobIds, a \in Attempts : Download(j, a)
  \/ \E j \in JobIds, a \in Attempts : Hash(j, a)
  \/ \E j \in JobIds, a \in Attempts : Process(j, a)
  \/ \E j \in JobIds, a \in Attempts : Save(j, a)
  \/ \E j \in JobIds, a \in Attempts : Analyze(j, a)
  \/ \E j \in JobIds, a \in Attempts : Complete(j, a)
  \/ \E j \in JobIds, a \in Attempts : Cleanup(j, a)
  \/ \E j \in JobIds, a \in Attempts : Except(j, a)
  \/ \E user \in Users, field_id \in FieldIds, edited_value \in EditedValues :
       update_field(user, field_id, edited_value)
  \/ \E user \in Users, j \in 1..FieldJobs : \E n \in 0..MaxUpdates :
       \E updates \in [1..n -> Updates] : batch_update_fields(user, j, updates)
  \/ \E user \in Users, field_id \in FieldIds : reset_field(user, field_id)

\* the worker together with the field edit endpoints
SpecFields == Init /\ [][NextFields]_vars

\* ------------------------------------------------------------ worker crashes
\* the worker process running invocation a dies, or is killed when the task
\* exceeds task_time_limit: the invocation simply stops where it is
Crash(j, a) ==
  /\ a \in 1..Len(tasks[j])
  /\ tasks[j][a].pc \notin {"returned", "raised", "crashed"}
  /\ Goto(j, a, [tasks[j][a] EXCEPT !.pc = "crashed"])
  /\ UNCHANGED <<jobs, extracted_fields, queue, temp_files, next_job_id, analysis, response, document>>

NextCrash ==
  \/ \E user \in Users, content \in Contents, enqueued \in BOOLEAN :
       next_job_id <= CrashJobs /\ upload_document(user, content, enqueued)
  \/ \E j \in JobIds : Begin(j)
  \/ \E j \in JobIds, a \in Attempts : Download(j, a)
  \/ \E j \in JobIds, a \in Attempts : Hash(j, a)
  \/ \E j \in JobIds, a \in Attempts : Process(j, a)
  \/ \E j \in JobIds, a \in Attempts : Save(j, a)
  \/ \E j \in JobIds, a \in Attempts : Analyze(j, a)
  \/ \E j \in JobIds, a \in Attempts : Complete(j, a)
  \/ \E j \in JobIds, a \in Attempts : Cleanup(j, a)
  \/ \E j \in JobIds, a \in Attempts : Except(j, a)
  \/ \E j \in JobIds, a \in Attempts : Crash(j, a)

\* a worker that has not crashed goes on to its next statement, and every
\* external call it makes returns or raises; a queued message is delivered
WorkerProgress ==
  /\ \A j \in JobIds : WF_vars(Begin(j))
  /\ \A j \in JobIds, a \in Attempts :
       /\ WF_vars(Download(j, a)) /\ WF_vars(Hash(j, a))
       /\ WF_vars(Process(j, a)) /\ WF_vars(Save(j, a))
       /\ WF_vars(Analyze(j, a)) /\ WF_vars(Complete(j, a))
       /\ WF_vars(Cleanup(j, a)) /\ WF_vars(Except(j, a))

SpecFair == Init /\ [][NextCrash]_vars /\ WorkerProgress

\* ------------------------------------------- perform_full_analysis on its own
\* inputs of a call: a duplicate hit or miss, the metadata indicators found,
\* the consistency issues found and the fields with their confidences
IssueKinds ==
  {[issue |-> "Total amount mismatch", severity |-> "high"],
   [issue |-> "Future invoice date", severity |-> "medium"],
   [issue |-> "Due date before invoice date", severity |-> "high"],
   [issue |-> "Suspicious amount pattern", severity |-> "medium"]}

FieldKinds ==
  [field_name : {"invoice_total", "notes"}, current_value : {"1000"},
   confidence : {"0.40", "0.65", "0.80"}]

SeqsUpTo(S, n) == UNION {[1..k -> S] : k \in 0..n}

AnalysisInputs ==
  [phase : {"input"},
   duplicate_check : {0, 1},
   indicators : SeqsUpTo({"Missing creation timestamp"}, MaxIndicators),
   issues : SeqsUpTo(IssueKinds, MaxIssues),
   fields : SeqsUpTo(FieldKinds, MaxFields)]

InitAnalysis ==
  /\ jobs = << >>
  /\ extracted_fields = << >>
  /\ queue = [j \in JobIds |-> 0]
  /\ tasks = [j \in JobIds |-> << >>]
  /\ temp_files = {}
  /\ next_job_id = 1
  /\ analysis \in AnalysisInputs
  /\ response = NoResponse
  /\ document = NoDocument

\* one call of perform_full_analysis on the drawn inputs
AnalyzeInputs ==
  /\ analysis.phase = "input"
  /\ analysis' =
       [phase |-> "done", input |-> analysis,
        report |-> perform_full_analysis(
          analysis.duplicate_check,
          [manipulation_indicators |-> analysis.indicators,
           risk_level |-> metadata_risk_level(analysis.indicators)],
          [consistency_issues |-> analysis.issues,
           risk_level |-> consistency_risk_level(analysis.issues)],
          analyze_confidence_scores(analysis.fields))]
  /\ UNCHANGED <<jobs, extracted_fields, queue, tasks, temp_files, next_job_id, response, document>>

SpecAnalysis == InitAnalysis /\ [][AnalyzeInputs]_vars

\* ------------------------------------------ check_text_consistency on its own
\* the current_value of an amount field; "" is what field_dict.get gives for
\* a field the document does not have
AmountTexts == {"", "0", "180", "1000", "1180", "1300"}

ConsistencyInputs ==
  [phase : {"fields"},
   invoice_subtotal : AmountTexts,
   invoice_tax : AmountTexts,
   invoice_total : AmountTexts]

\* the extracted field dictionaries of the amounts the document has
AmountFields(input) ==
  LET field(name, text) ==
        IF text = "" THEN << >>
        ELSE <<[field_name |-> name, current_value |-> text, confidence |-> "0.90"]>>
  IN field("invoice_subtotal", input.invoice_subtotal)
     \o field("invoice_tax", input.invoice_tax)
     \o field("invoice_total", input.invoice_total)

InitConsistency ==
  /\ jobs = << >>
  /\ extracted_fields = << >>
  /\ queue = [j \in JobIds |-> 0]
  /\ tasks = [j \in JobIds |-> << >>]
  /\ temp_files = {}
  /\ next_job_id = 1
  /\ analysis \in ConsistencyInputs
  /\ response = NoResponse
  /\ document = NoDocument

\* one call of perform_full_analysis for a document that is no duplicate and
\* has no metadata indicators, on the drawn amount fields
CheckConsistency ==
  /\ analysis.phase = "fields"
  /\ LET fields_list == AmountFields(analysis)
         consistency_check == check_text_consistency(fields_list)
     IN analysis' =
          [phase |-> "checked", input |-> analysis,
           consistency_check |-> consistency_check,
           report |-> perform_full_analysis(
             0,
             [manipulation_indicators |-> << >>, risk_level |-> metadata_risk_level(<< >>)],
             consistency_check,
             analyze_confidence_scores(fields_list))]
  /\ UNCHANGED <<jobs, extracted_fields, queue, tasks, temp_files, next_job_id, response, document>>

SpecConsistency == InitConsistency /\ [][CheckConsistency]_vars

\* --------------------------------------- analyze_confidence_scores on its own
\* fields whose confidence is a number or one of the textual labels
ConfidenceFieldKinds ==
  [field_name : {"invoice_total", "notes"}, current_value : {"1000"},
   confidence : {"0.40", "0.65", "0.80", "high", "low", "very low"}]

ConfidenceInputs ==
  [phase : {"confidences"}, fields : SeqsUpTo(ConfidenceFieldKinds, MaxFields)]

InitConfidence ==
  /\ jobs = << >>
  /\ extracted_fields = << >>
  /\ queue = [j \in JobIds |-> 0]
  /\ tasks = [j \in JobIds |-> << >>]
  /\ temp_files = {}
  /\ next_job_id = 1
  /\ analysis \in ConfidenceInputs
  /\ response = NoResponse
  /\ document = NoDocument

\* one call of analyze_confidence_scores on the drawn fields: its result, or
\* the exception that leaves it
AnalyzeConfidence ==
  /\ analysis.phase = "confidences"
  /\ analysis' = [phase |-> "scored", input |-> analysis,
                  confidence_analysis |-> analyze_confidence_scores(analysis.fields)]
  /\ UNCHANGED <<jobs, extracted_fields, queue, tasks, temp_files, next_job_id, response, document>>

SpecConfidence == InitConfidence /\ [][AnalyzeConfidence]_vars

\* ------------------------------------------------------------ PDFClassifier
TEXT_ONLY == "text_only"
IMAGE_HEAVY == "image_heavy"
IMAGE_LIGHT == "image_light"
MIXED == "mixed"
PDFType == {TEXT_ONLY, IMAGE_HEAVY, IMAGE_LIGHT, MIXED}

image_threshold == 2  \* get_pdf_classifier: PDFClassifier(image_threshold=2)

min_image_width == 200    \* PDFClassifier.__init__ defaults
min_image_height == 200
min_image_area == 40000

\* the filter judging an embedded image by its area alone
is_content_image_by_area(width, height) == width * height >= min_image_area

\* the filter of embedded images: a logo or icon is narrower or lower than the
\* minimum, or smaller in area (pdf_classifier.py 109-111)
is_content_image(width, height) ==
  /\ width >= min_image_width
  /\ height >= min_image_height
  /\ width * height >= min_image_area

RECURSIVE content_images(_)
\* the loop over the embedded images of the document, in page order: an image
\* that cannot be extracted or opened is skipped with a warning, one that
\* passes the filter is appended to images
content_images(embedded) ==
  IF embedded = << >> THEN << >>
  ELSE LET img == Head(embedded)
       IN (IF img.readable /\ is_content_image(img.width, img.height)
           THEN <<img>> ELSE << >>) \o content_images(Tail(embedded))

\* classify_pdf with the substantial-text rule taken as text_length >= 500
classify_pdf_inclusive(text_length, image_count, page_count) ==
  LET has_text == text_length > 50
  IN IF image_count = 0 /\ has_text THEN TEXT_ONLY
     ELSE IF image_count > image_threshold /\ ~has_text THEN IMAGE_HEAVY
     ELSE IF image_count <= image_threshold /\ ~has_text /\ page_count <= 5
       THEN IMAGE_LIGHT
     ELSE IF image_count <= image_threshold /\ ~has_text /\ page_count > 5
       THEN IMAGE_HEAVY
     ELSE IF has_text /\ text_length >= 500 THEN TEXT_ONLY
     ELSE IF image_count <= image_threshold /\ page_count <= 5 THEN IMAGE_LIGHT
     ELSE IF image_count <= image_threshold /\ page_count > 5 THEN IMAGE_HEAVY
     ELSE MIXED

\* classify_pdf without the page limit on documents with limited text
classify_pdf_any_length(text_length, image_count, page_count) ==
  LET has_text == text_length > 50
  IN IF image_count = 0 /\ has_text THEN TEXT_ONLY
     ELSE IF image_count > image_threshold /\ ~has_text THEN IMAGE_HEAVY
     ELSE IF image_count <= image_threshold /\ ~has_text /\ page_count <= 5
       THEN IMAGE_LIGHT
     ELSE IF image_count <= image_threshold /\ ~has_text /\ page_count > 5
       THEN IMAGE_HEAVY
     ELSE IF has_text /\ text_length > 500 THEN TEXT_ONLY
     ELSE IF image_count <= image_threshold THEN IMAGE_LIGHT
     ELSE MIXED

\* classify_pdf: the if / elif chain over the trimmed text length, the number
\* of content images and the page count (pdf_classifier.py 135-169)
classify_pdf(text_length, image_count, page_count) ==
  LET has_text == text_length > 50
  IN IF image_count = 0 /\ has_text THEN TEXT_ONLY
     ELSE IF image_count > image_threshold /\ ~has_text THEN IMAGE_HEAVY
     ELSE IF image_count <= image_threshold /\ ~has_text /\ page_count <= 5
       THEN IMAGE_LIGHT
     ELSE IF image_count <= image_threshold /\ ~has_text /\ page_count > 5
       THEN IMAGE_HEAVY
     ELSE IF has_text /\ text_length > 500 THEN TEXT_ONLY
     ELSE IF image_count <= image_threshold /\ page_count <= 5 THEN IMAGE_LIGHT
     ELSE IF image_count <= image_threshold /\ page_count > 5 THEN IMAGE_HEAVY
     ELSE MIXED

\* ------------------------------------------------------------- GeminiService
\* Confidences are in hundredths; the values drawn are even, so the halving
\* below is exact.
\* result.get('confidence', 0.9): the confidence the service reported
api_confidence(reported) == IF reported = None THEN 90 ELSE reported

\* the overall confidence without the OCR share
overall_confidence_api_only(ocr_confidence, api) == api

\* average of OCR and API confidence when an OCR confidence was passed
overall_confidence(ocr_confidence, api) ==
  IF ocr_confidence # None THEN (ocr_confidence + api) \div 2 ELSE api

\* extract_fields_from_text: json.loads of the answer, then the result record
extract_fields_from_text(parses, reported, ocr_confidence) ==
  IF parses
  THEN [success |-> TRUE, method |-> "gemini_text",
        confidence |-> overall_confidence(ocr_confidence, api_confidence(reported)),
        ocr_confidence |-> ocr_confidence,
        api_confidence |-> api_confidence(reported)]
  ELSE [success |-> FALSE, method |-> "gemini_text"]

\* extract_fields_from_images: the result carries the API confidence alone
extract_fields_from_images(parses, reported) ==
  IF parses
  THEN [success |-> TRUE, method |-> "gemini_vision",
        confidence |-> api_confidence(reported),
        ocr_confidence |-> None,
        api_confidence |-> api_confidence(reported)]
  ELSE [success |-> FALSE, method |-> "gemini_vision"]

\* --------------------------------------------------------- DocumentProcessor
\* calls to the collaborators of the dispatcher
RenderCall(dpi) == [service |-> "render_all_pages_to_images", dpi |-> dpi]

OcrCall(images) ==
  [service |-> "extract_text_from_images", images |-> images, languages |-> <<"eng", "kan">>]

TextCall(text) == [service |-> "extract_fields_from_text", text |-> text]

VisionCall(text_context) ==
  [service |-> "extract_fields_from_images", images |-> "page_images",
   text_context |-> text_context]

\* the dispatch sending a short document with some text to the text service
strategy_calls_text_first(pdf_type, image_count, has_text) ==
  CASE pdf_type = TEXT_ONLY -> <<TextCall(<<"text_content">>)>>
    [] pdf_type = IMAGE_LIGHT ->
         IF has_text
         THEN <<RenderCall(250), TextCall(<<"text_content">>)>>
         ELSE <<RenderCall(250), VisionCall(<< >>)>>
    [] pdf_type = IMAGE_HEAVY ->
         IF image_count > 0
         THEN <<OcrCall("content_images"), TextCall(<<"ocr_text">>)>>
         ELSE <<RenderCall(300), OcrCall("page_images"), TextCall(<<"ocr_text">>)>>
    [] pdf_type = MIXED ->
         (IF image_count > 0 THEN <<OcrCall("content_images")>> ELSE << >>)
         \o <<TextCall((IF has_text THEN <<"text_content">> ELSE << >>)
                       \o (IF image_count > 0 THEN <<"ocr_text">> ELSE << >>))>>

\* the calls process_document makes after classify_pdf, in order, when none
\* of them raises (document_processor.py 54-118); the text handed on is given
\* by its parts, and a document has at least one page, so page_images is not
\* empty after rendering
strategy_calls(pdf_type, image_count, has_text) ==
  CASE pdf_type = TEXT_ONLY -> <<TextCall(<<"text_content">>)>>
    [] pdf_type = IMAGE_LIGHT ->
         <<RenderCall(250),
           VisionCall(IF has_text THEN <<"text_content">> ELSE << >>)>>
    [] pdf_type = IMAGE_HEAVY ->
         IF image_count > 0
         THEN <<OcrCall("content_images"), TextCall(<<"ocr_text">>)>>
         ELSE <<RenderCall(300), OcrCall("page_images"), TextCall(<<"ocr_text">>)>>
    [] pdf_type = MIXED ->
         (IF image_count > 0 THEN <<OcrCall("content_images")>> ELSE << >>)
         \o <<TextCall((IF has_text THEN <<"text_content">> ELSE << >>)
                       \o (IF image_count > 0 THEN <<"ocr_text">> ELSE << >>))>>

\* DocumentProcessor.process_document for a document with the given text
\* length, content images and pages, when OCR (if run) reports confidence ocr
\* and the extraction service answers with the reported confidence
process_document(text_length, image_count, page_count, ocr, parses, reported) ==
  LET pdf_type == classify_pdf(text_length, image_count, page_count)
      \* render_all_pages_to_images gives one bitmap per page
      page_images ==
        IF pdf_type = IMAGE_LIGHT THEN page_count
        ELSE IF pdf_type = IMAGE_HEAVY /\ image_count = 0 THEN page_count
        ELSE 0
      ocr_confidence ==
        IF pdf_type = IMAGE_HEAVY THEN ocr
        ELSE IF pdf_type = MIXED /\ image_count > 0 THEN ocr
        ELSE None
      result ==
        IF page_images > 0 /\ pdf_type = IMAGE_LIGHT
        THEN extract_fields_from_images(parses, reported)
        ELSE extract_fields_from_text(parses, reported, ocr_confidence)
  IN [result |-> result,
      ocr_confidence |-> ocr_confidence,
      calls |-> strategy_calls(pdf_type, image_count, text_length > 50),
      metadata |-> [pdf_type |-> pdf_type, page_count |-> page_count,
                    image_count |-> image_count, has_text |-> text_length > 50,
                    text_length |-> text_length]]

\* ----------------------------------- DocumentProcessor.process_document alone
\* trimmed text lengths around the thresholds 50 and 500 of classify_pdf
TextLengths == {0, 50, 51, 500, 501, 600, 1200, MaxTextLength}

\* confidence of the OCR extractor for the document
OcrConfidences == {0, 80, 100}

\* confidence in the service's answer: omitted, or a value of the range 0.0-1.0
\* the prompt asks for (FIELD_EXTRACTION_PROMPT); the answer is not validated
ReportedConfidences == {None, 0, 90, 100}

DocumentInputs ==
  [phase : {"input"},
   text_length : TextLengths,
   image_count : 0..MaxImages,
   page_count : 1..MaxPages,
   ocr : OcrConfidences,
   parses : BOOLEAN,
   reported : ReportedConfidences]

InitDocument ==
  /\ jobs = << >>
  /\ extracted_fields = << >>
  /\ queue = [j \in JobIds |-> 0]
  /\ tasks = [j \in JobIds |-> << >>]
  /\ temp_files = {}
  /\ next_job_id = 1
  /\ analysis = NoAnalysis
  /\ response = NoResponse
  /\ document \in DocumentInputs

\* one call of DocumentProcessor.process_document on the drawn document
ProcessDocument ==
  /\ document.phase = "input"
  /\ document' =
       [phase |-> "done", input |-> document,
        output |-> process_document(document.text_length, document.image_count,
                                    document.page_count, document.ocr,
                                    document.parses, document.reported)]
  /\ UNCHANGED <<jobs, extracted_fields, queue, tasks, temp_files, next_job_id,
                 analysis, response>>

SpecDocument == InitDocument /\ [][ProcessDocument]_vars

\* ------------------------------------------------- the image filter on its own
MaxEmbedded == 2      \* embedded images of a document

\* pixel sizes around the thresholds; PIL reports no size below 1, 0 stands
\* for a degenerate one
Dimensions == {0, 160, 199, 200, 250}

EmbeddedImages == [width : Dimensions, height : Dimensions, readable : BOOLEAN]

ImageInputs == [phase : {"embedded"}, embedded : SeqsUpTo(EmbeddedImages, MaxEmbedded)]

InitImages ==
  /\ jobs = << >>
  /\ extracted_fields = << >>
  /\ queue = [j \in JobIds |-> 0]
  /\ tasks = [j \in JobIds |-> << >>]
  /\ temp_files = {}
  /\ next_job_id = 1
  /\ analysis = NoAnalysis
  /\ response = NoResponse
  /\ document \in ImageInputs

\* the image part of one classify_pdf call: images and image_count of the
\* classification
ExtractImages ==
  /\ document.phase = "embedded"
  /\ LET images == content_images(document.embedded)
     IN document' = [phase |-> "extracted", input |-> document,
                     images |-> images, image_count |-> Len(images)]
  /\ UNCHANGED <<jobs, extracted_fields, queue, tasks, temp_files, next_job_id,
                 analysis, response>>

SpecImages == InitImages /\ [][ExtractImages]_vars

\* ================================================================ properties
Report(table, j) == Head(table[j].fraud_analysis)

HasReport(table, j) == table[j].fraud_analysis # NoReport

DuplicateFlag == "Duplicate document detected"

Flagged(report) == \E i \in 1..Len(report.flags) : report.flags[i] = DuplicateFlag

\* an invocation between the commit of PROCESSING and its terminal commit
ActivePcs == {"download", "hash", "process", "save", "analyze", "complete", "except"}

Active(j, a) == a \in 1..Len(tasks[j]) /\ tasks[j][a].pc \in ActivePcs

\* jobs other than j of the same user with the same file hash as j
Twins(table, j) ==
  {k \in DOMAIN table \ {j} : /\ table[k].user_id = table[j].user_id
                               /\ table[k].file_hash = table[j].file_hash}

\* C1: the only status changes are QUEUED -> PROCESSING, PROCESSING -> COMPLETED
\* and PROCESSING -> FAILED; a COMPLETED or FAILED job keeps its status.
C1_StatusTransitions ==
  [][\A j \in DOMAIN jobs :
       j \in DOMAIN jobs' =>
         \/ jobs'[j].status = jobs[j].status
         \/ <<jobs[j].status, jobs'[j].status>> \in
              {<<QUEUED, PROCESSING>>, <<PROCESSING, COMPLETED>>,
               <<PROCESSING, FAILED>>}]_vars

\* C2: a job is COMPLETED only with file_hash, fraud_analysis and completed_at
\* set, and an invocation reaches each step only after the earlier ones of the
\* same pass took effect: hash recorded before processing, a successful result
\* before saving, rows persisted before analysis, report persisted before the
\* status becomes COMPLETED.
C2_CompletedAfterAllSteps ==
  /\ \A j \in DOMAIN jobs :
       jobs[j].status = COMPLETED =>
         /\ jobs[j].file_hash # NULL
         /\ HasReport(jobs, j)
         /\ jobs[j].completed_at # NULL
         /\ \E a \in 1..Len(tasks[j]) :
              tasks[j][a].pc \in {"cleanup", "returned", "except", "raised"}
  /\ \A j \in DOMAIN jobs : \A a \in 1..Len(tasks[j]) :
       LET t == tasks[j][a]
       IN /\ t.pc \in {"process", "save", "analyze", "complete", "cleanup"} =>
               t.file_hash # NULL /\ jobs[j].file_hash = t.file_hash
          /\ t.pc \in {"save", "analyze", "complete", "cleanup"} =>
               t.result # NoResult /\ ExtractionResults[t.result].success
          /\ t.pc \in {"analyze", "complete", "cleanup"} =>
               Len(extracted_fields[j]) >= Len(MetadataRows(ExtractionResults[t.result]))
          /\ t.pc \in {"complete", "cleanup"} => HasReport(jobs, j)
          /\ t.pc \in {"download", "hash", "process", "save", "analyze", "complete"} =>
               jobs[j].status # COMPLETED

C2_Witness == \E j \in DOMAIN jobs : jobs[j].status = COMPLETED

StepErrors == {"download failed", "hash failed", "classification failed",
               "Document processing failed", "save failed", "analysis failed"}

\* C4: an invocation in which one of the steps download, hash, classification,
\* extraction / field persistence or fraud analysis raised has left the job
\* FAILED with error_message = str(e) and completed_at set.
C4_StepErrorEndsFailed ==
  \A j \in DOMAIN jobs : \A a \in 1..Len(tasks[j]) :
    (tasks[j][a].pc \in {"returned", "raised"} /\ tasks[j][a].error \in StepErrors)
      => /\ jobs[j].status = FAILED
         /\ jobs[j].error_message = tasks[j][a].error
         /\ jobs[j].completed_at # NULL

\* C5: the reported risk_score lies in 0..9 for any inputs of
\* perform_full_analysis.
C5_RiskScoreBound ==
  analysis.phase = "done" =>
    /\ 0 <= analysis.report.risk_score
    /\ analysis.report.risk_score <= 9
    /\ analysis.report.risk_score <= analysis.report.max_risk_score

\* C6: once process_document has returned or exited, the temp file of the job
\* does not exist.
C6_TempFileRemoved ==
  \A j \in JobIds : \A a \in 1..Len(tasks[j]) :
    tasks[j][a].pc \in {"returned", "raised"} => j \notin temp_files

\* the step in which invocation a of job j runs perform_full_analysis and
\* commits the report
Lookup(j, a) == At(j, a, "analyze") /\ tasks'[j][a].pc = "complete"

\* C7: when job j runs its duplicate check, the duplicate sub-score is 3 and
\* the flag is present iff another job of the same user with the same file
\* hash is COMPLETED at that moment; otherwise the sub-score is 0 and there is
\* no flag.
C7_DuplicateIffCompletedTwin ==
  [][\A j \in DOMAIN jobs : \A a \in Attempts :
       Lookup(j, a) =>
         LET hit == \E k \in Twins(jobs, j) : jobs[k].status = COMPLETED
             report == Report(jobs', j)
         IN /\ report.risk_scores.duplicate = (IF hit THEN 3 ELSE 0)
            /\ Flagged(report) <=> hit]_vars

\* a job carries the duplicate flag while a twin is COMPLETED
C7_Witness ==
  \E j \in DOMAIN jobs :
    /\ HasReport(jobs, j)
    /\ Report(jobs, j).risk_scores.duplicate = 3
    /\ Flagged(Report(jobs, j))
    /\ \E k \in Twins(jobs, j) : jobs[k].status = COMPLETED

\* the jobs table with every row of another user than `user` rewritten to the
\* given status and file hash
OthersRewritten(table, user, status, file_hash) ==
  [k \in DOMAIN table |->
     IF table[k].user_id = user THEN table[k]
     ELSE [table[k] EXCEPT !.status = status, !.file_hash = file_hash]]

\* the jobs table without the rows of other users
OwnRows(table, user) ==
  [k \in {m \in DOMAIN table : table[m].user_id = user} |-> table[k]]

\* C8: the report computed for a job does not depend on the rows of other
\* users (rewriting or removing them gives the same report), and a duplicate
\* flag always points at a job of the same user.
C8_OwnerIsolation ==
  /\ \A j \in DOMAIN jobs : \A a \in 1..Len(tasks[j]) :
       tasks[j][a].pc = "analyze" =>
         /\ FraudAnalysisIn(OwnRows(jobs, jobs[j].user_id), j, a) = FraudAnalysis(j, a)
         /\ \A status \in JobStatus, content \in Contents :
              FraudAnalysisIn(OthersRewritten(jobs, jobs[j].user_id, status,
                                              calculate_file_hash(content)), j, a)
                = FraudAnalysis(j, a)
  /\ \A j \in DOMAIN jobs :
       (HasReport(jobs, j) /\ Flagged(Report(jobs, j))) =>
         LET k == Report(jobs, j).original_job_id
         IN k \in DOMAIN jobs /\ jobs[k].user_id = jobs[j].user_id

\* a job is about to be analysed while a job of another user with the same
\* file hash is COMPLETED, and its report carries no duplicate flag
C8_Witness ==
  \E j, k \in DOMAIN jobs : \E a \in 1..Len(tasks[j]) :
    /\ jobs[j].user_id # jobs[k].user_id
    /\ jobs[j].file_hash # NULL /\ jobs[j].file_hash = jobs[k].file_hash
    /\ jobs[k].status = COMPLETED
    /\ tasks[j][a].pc = "analyze"
    /\ FraudAnalysis(j, a).risk_scores.duplicate = 0
    /\ ~Flagged(FraudAnalysis(j, a))

\* C9: a lookup made while the twin of the same user and hash is still
\* PROCESSING (none being COMPLETED) yields sub-score 0 and no flag, and the
\* verdict is never revisited: a commit of COMPLETED changes no report.
C9_RaceMissesDuplicate ==
  [][/\ \A j \in DOMAIN jobs : \A a \in Attempts :
          (/\ Lookup(j, a)
           /\ \E k \in Twins(jobs, j) : jobs[k].status = PROCESSING
           /\ \A k \in Twins(jobs, j) : jobs[k].status # COMPLETED)
            => /\ Report(jobs', j).risk_scores.duplicate = 0
               /\ ~Flagged(Report(jobs', j))
     /\ \A j \in DOMAIN jobs :
          (jobs[j].status # COMPLETED /\ jobs'[j].status = COMPLETED)
            => \A k \in DOMAIN jobs : jobs'[k].fraud_analysis = jobs[k].fraud_analysis
    ]_vars

\* both jobs of one user with the same file hash are COMPLETED and neither
\* carries the duplicate flag
C9_Witness ==
  \E j, k \in DOMAIN jobs :
    /\ j # k /\ k \in Twins(jobs, j)
    /\ jobs[j].status = COMPLETED /\ jobs[k].status = COMPLETED
    /\ Report(jobs, j).risk_scores.duplicate = 0 /\ ~Flagged(Report(jobs, j))
    /\ Report(jobs, k).risk_scores.duplicate = 0 /\ ~Flagged(Report(jobs, k))

\* C10: risk_score is the sum of the four sub-scores and overall_risk_level is
\* high for a score of 6 or more, medium for 3..5 and low for 0..2.
C10_RiskLevelThresholds ==
  analysis.phase = "done" =>
    LET report == analysis.report
        scores == report.risk_scores
    IN /\ report.risk_score = scores.duplicate + scores.metadata
                              + scores.consistency + scores.confidence
       /\ scores.duplicate \in {0, 3} /\ scores.metadata \in {0, 1, 2}
       /\ scores.consistency \in {0, 1, 3} /\ scores.confidence \in {0, 1, 2}
       /\ (report.overall_risk_level = "high") <=> (report.risk_score >= 6)
       /\ (report.overall_risk_level = "medium") <=>
            (report.risk_score >= 3 /\ report.risk_score <= 5)
       /\ (report.overall_risk_level = "low") <=> (report.risk_score <= 2)

\* a report at the boundary score 6 has been produced
C10_Witness ==
  /\ analysis.phase = "done"
  /\ analysis.report.risk_score = 6
  /\ analysis.report.overall_risk_level = "high"
  /\ analysis.report.risk_scores.confidence = 2

\* C11: a malformed or non-parseable answer of the extraction service is fatal
\* for the pass: no result built from it is carried on (so nothing is
\* defaulted, persisted or completed), and the pass leaves the job FAILED with
\* an error message and without fields.
C11_MalformedResponseFails ==
  \A j \in DOMAIN jobs : \A a \in 1..Len(tasks[j]) :
    LET t == tasks[j][a]
    IN /\ t.result # NoResult => ExtractionResults[t.result].response = "complete"
       /\ (t.error = "Document processing failed" /\ t.pc \in {"returned", "raised"})
            => /\ jobs[j].status = FAILED
               /\ jobs[j].error_message # NULL
               /\ extracted_fields[j] = << >>

\* C12: for every text length, content image count and page count drawn,
\* classify_pdf returns the strategy of the ordered decision tree (rules 1-4,
\* then for text with images: more than 500 characters TEXT_ONLY, few images
\* on at most 5 pages IMAGE_LIGHT, few images on more pages IMAGE_HEAVY, else
\* MIXED); the strategy depends on these three values alone, and the three
\* scenarios classify as TEXT_ONLY, IMAGE_HEAVY and TEXT_ONLY.
C12_ClassifyDecisionTree ==
  document.phase = "done" =>
    LET text_length == document.input.text_length
        content_image_count == document.input.image_count
        page_count == document.input.page_count
        has_text == text_length > 50
        few == content_image_count <= 2
        strategy ==
          CASE content_image_count = 0 /\ has_text -> TEXT_ONLY
            [] content_image_count > 2 /\ ~has_text -> IMAGE_HEAVY
            [] few /\ ~has_text /\ page_count <= 5 -> IMAGE_LIGHT
            [] few /\ ~has_text /\ page_count > 5 -> IMAGE_HEAVY
            [] content_image_count > 0 /\ has_text /\ text_length > 500 -> TEXT_ONLY
            [] content_image_count > 0 /\ has_text /\ text_length <= 500
               /\ few /\ page_count <= 5 -> IMAGE_LIGHT
            [] content_image_count > 0 /\ has_text /\ text_length <= 500
               /\ few /\ page_count > 5 -> IMAGE_HEAVY
            [] content_image_count > 0 /\ has_text /\ text_length <= 500
               /\ ~few -> MIXED
        pdf_type == document.output.metadata.pdf_type
    IN /\ pdf_type = strategy
       /\ \A ocr \in OcrConfidences, parses \in BOOLEAN, reported \in ReportedConfidences :
            process_document(text_length, content_image_count, page_count,
                             ocr, parses, reported).metadata.pdf_type = pdf_type
       /\ (page_count = 1 /\ text_length = 1200 /\ content_image_count = 0)
            => pdf_type = TEXT_ONLY
       /\ (page_count = 8 /\ text_length = 0 /\ content_image_count = 5)
            => pdf_type = IMAGE_HEAVY
       /\ (page_count = 2 /\ text_length = 600 /\ content_image_count = 3)
            => pdf_type = TEXT_ONLY

\* the document of the third scenario was classified, by the rule for more
\* than 500 characters of text beside images
C12_Witness ==
  /\ document.phase = "done"
  /\ document.input.page_count = 2
  /\ document.input.text_length = 600
  /\ document.input.image_count = 3
  /\ document.output.metadata.pdf_type = TEXT_ONLY

\* C13: IMAGE_LIGHT is returned only for documents of at most 5 pages with at
\* most image_threshold content images, and only IMAGE_LIGHT documents are
\* sent to the vision extraction service, so none of more than 5 pages is.
C13_VisionOnlyShortDocuments ==
  document.phase = "done" =>
    LET pdf_type == document.output.metadata.pdf_type
    IN /\ pdf_type = IMAGE_LIGHT =>
            /\ document.input.page_count <= 5
            /\ document.input.image_count <= image_threshold
       /\ document.output.result.method = "gemini_vision" =>
            /\ pdf_type = IMAGE_LIGHT
            /\ document.input.page_count <= 5

\* a document with limited text and few images on 5 pages went to the vision
\* service
C13_Witness ==
  /\ document.phase = "done"
  /\ document.input.page_count = 5
  /\ document.input.text_length = 500
  /\ document.input.image_count = 2
  /\ document.output.metadata.pdf_type = IMAGE_LIGHT
  /\ document.output.result.method = "gemini_vision"

Crashed(j) == \E a \in 1..Len(tasks[j]) : tasks[j][a].pc = "crashed"

\* C14: a job that is PROCESSING eventually becomes COMPLETED or FAILED unless
\* its worker crashes, given that every external call returns or raises; and
\* a job whose worker crashed while it was PROCESSING stays PROCESSING.
C14_ProcessingTerminates ==
  /\ \A j \in JobIds :
       (j \in DOMAIN jobs /\ jobs[j].status = PROCESSING)
         ~> (j \in DOMAIN jobs /\ (jobs[j].status \in {COMPLETED, FAILED} \/ Crashed(j)))
  /\ [][\A j \in DOMAIN jobs :
          (Crashed(j) /\ jobs[j].status = PROCESSING)
            => (j \in DOMAIN jobs' /\ jobs'[j].status = PROCESSING)]_vars

\* C15: the rows of a job carry pairwise different field names.
C15_OneRowPerKey ==
  \A j \in DOMAIN extracted_fields :
    \A i, k \in 1..Len(extracted_fields[j]) :
      i # k => extracted_fields[j][i].field_name # extracted_fields[j][k].field_name

ReadEndpoints == {"get_job_fields", "get_job_results", "get_job_results_enhanced"}

\* C16: no read endpoint hands a user extracted fields of a job whose
\* fraud_analysis is still NULL.
C16_FieldsShownAfterReport ==
  [][(/\ response' # response
      /\ response'.endpoint \in ReadEndpoints
      /\ response'.status_code = 200
      /\ response'.fields # << >>)
       => HasReport(jobs, response'.job_id)]_vars

\* C19: every row of extracted_fields references an existing job, in every
\* reachable state; in particular a successful delete_job leaves no row of
\* the deleted job, and a worker still processing the job adds none later.
C19_NoOrphanFields ==
  \A j \in DOMAIN extracted_fields :
    extracted_fields[j] # << >> => j \in DOMAIN jobs

\* the job was deleted while its worker was processing it, and the worker is
\* about to persist the fields it extracted
C19_Witness ==
  \E j \in JobIds : \E a \in 1..Len(tasks[j]) :
    /\ j < next_job_id /\ j \notin DOMAIN jobs
    /\ response = Reply("delete_job", response.user, j, 200, << >>)
    /\ tasks[j][a].pc = "save"
    /\ extracted_fields[j] = << >>

\* errors raised after save_extracted_fields committed the rows of the pass
LateErrors == {"analysis failed", "status write failed"}

\* C17: when fraud analysis or the final status write raises after the rows
\* of the pass were committed, the pass leaves the job FAILED and the rows it
\* committed exist unchanged, no more and no fewer.
C17_FieldsKeptOnLaterFailure ==
  \A j \in DOMAIN jobs : \A a \in 1..Len(tasks[j]) :
    LET t == tasks[j][a]
    IN (t.pc \in {"returned", "raised"} /\ t.error \in LateErrors)
         => /\ jobs[j].status = FAILED
            /\ extracted_fields[j] =
                 save_extracted_fields(<< >>, ExtractionResults[t.result])

\* C18: the step after a successful fraud analysis is the status write, and
\* it does not look at the report: whatever the risk score and level, the
\* pass makes the job COMPLETED with its rows in place (the only other outcome
\* is the commit itself raising), so two passes that differ only in the
\* report end in the same status.
C18_RiskNeverBlocks ==
  [][\A j \in DOMAIN jobs : \A a \in Attempts :
       (At(j, a, "complete") /\ tasks'[j][a].pc # "complete") =>
         \/ /\ tasks'[j][a].pc = "cleanup"
            /\ jobs'[j].status = COMPLETED
            /\ jobs'[j].fraud_analysis = jobs[j].fraud_analysis
            /\ extracted_fields'[j] = extracted_fields[j]
            /\ extracted_fields[j] # << >>
         \/ tasks'[j][a].error = "status write failed"]_vars

\* a job is COMPLETED with a report of high overall risk, its rows persisted
C18_Witness ==
  \E j \in DOMAIN jobs :
    /\ jobs[j].status = COMPLETED
    /\ HasReport(jobs, j)
    /\ Report(jobs, j).overall_risk_level = "high"
    /\ Report(jobs, j).risk_score >= 6
    /\ extracted_fields[j] # << >>

\* the rows save_extracted_fields writes from the result itself, not from the
\* returned pairs
MetadataNames == {"_document_type", "_confidence", "_summary", "_method", "_pdf_type"}

\* the returned pairs worth a row, in the returned order
KeptPairs(extracted_data) ==
  SelectSeq(extracted_data, LAMBDA item : item.value \notin {"", "Not found"})

C22_TotalMismatchFlagged ==
  analysis.phase = "checked" =>
    LET subtotal == _extract_amount(analysis.input.invoice_subtotal)
        tax == _extract_amount(analysis.input.invoice_tax)
        total == _extract_amount(analysis.input.invoice_total)
        issues == analysis.consistency_check.consistency_issues
        high == \E i \in 1..Len(issues) : issues[i].severity = "high"
        score == analysis.report.risk_scores.consistency
    IN /\ (/\ subtotal # None /\ tax # None /\ total # None
            /\ Abs(subtotal + tax - total) > 1)
             => /\ \E i \in 1..Len(issues) :
                     /\ issues[i].issue = "Total amount mismatch"
                     /\ issues[i].severity = "high"
                /\ score = 3
       /\ score = (IF high THEN 3 ELSE IF issues # << >> THEN 1 ELSE 0)

\* the confidence of a field as a number of hundredths: a label stands for
\* 0.9 / 0.7 / 0.5 / 0.95 / 0.3
LabelOrNumber(confidence) ==
  CASE confidence = "high" -> 90
    [] confidence = "medium" -> 70
    [] confidence = "low" -> 50
    [] confidence = "very high" -> 95
    [] confidence = "very low" -> 30
    [] OTHER -> ConfFloat(confidence)

\* C23: for fields whose confidence is a number or a textual label,
\* analyze_confidence_scores returns without error; with the labels mapped to
\* 0.9 / 0.7 / 0.5 / 0.95 / 0.3 in the flagging and in the average, it flags
\* critical fields below 0.70 and any field below 0.50, and the sub-score is
\* 2 when the average is below 0.60 or 3 fields are flagged, 1 when the
\* average is below 0.75 or a field is flagged, else 0.
C23_LabelsMappedEverywhere ==
  analysis.phase = "scored" =>
    LET fields == analysis.input.fields
        n == Len(fields)
        value(i) == LabelOrNumber(fields[i].confidence)
        flagged == {i \in 1..n :
                      \/ fields[i].field_name \in critical_fields /\ value(i) < 70
                      \/ value(i) < 50}
        total == SeqSum([i \in 1..n |-> value(i)])
        below(t) == IF n = 0 THEN 0 < t ELSE total < t * n
        score == IF below(60) \/ Cardinality(flagged) >= 3 THEN 2
                 ELSE IF below(75) \/ flagged # {} THEN 1 ELSE 0
        result == analysis.confidence_analysis
    IN /\ result # ValueError
       /\ result.low_confidence_fields = Cardinality(flagged)
       /\ SubScore2(result.risk_level) = score

\* the readable embedded images of the given size, and those among the kept
Embedded(width, height) ==
  {i \in 1..Len(document.input.embedded) :
     LET img == document.input.embedded[i]
     IN img.readable /\ img.width = width /\ img.height = height}

Kept(width, height) ==
  {i \in 1..Len(document.images) :
     document.images[i].width = width /\ document.images[i].height = height}

\* the parts of the image filter boundary the code and the specification
\* agree on
FilterBoundary ==
  /\ document.image_count = Len(document.images)
  /\ Cardinality(Kept(200, 200)) = Cardinality(Embedded(200, 200))
  /\ Kept(199, 200) = {} /\ Kept(200, 199) = {}
  /\ \A i \in 1..Len(document.images) :
       document.images[i].width > 0 /\ document.images[i].height > 0

\* C24 as stated: 200x200 is kept, 199x200 and 200x199 are filtered out, a
\* non-square image of area exactly 40000 such as 160x250 is kept, sizes <= 0
\* are filtered out, and image_count counts the kept images.
C24_AreaBoundaryKept ==
  document.phase = "extracted" =>
    /\ FilterBoundary
    /\ Cardinality(Kept(160, 250)) = Cardinality(Embedded(160, 250))

\* C24 amended: an image is kept iff its width is at least 200, its height at
\* least 200 and its area at least 40000, so 200x200 is kept and 199x200,
\* 200x199, 160x250 (area exactly 40000, too narrow) and sizes <= 0 are
\* filtered out; images holds the kept images in document order and
\* image_count is their number.
C24_ImageFilterBoundary ==
  document.phase = "extracted" =>
    /\ FilterBoundary
    /\ Kept(160, 250) = {} /\ Kept(250, 160) = {}
    /\ document.images =
         SelectSeq(document.input.embedded,
                   LAMBDA img : /\ img.readable
                                /\ img.width >= 200 /\ img.height >= 200
                                /\ img.width * img.height >= 40000)

\* a document embedding a 160x250 image and a 200x200 image: the second one
\* alone is a content image
C24_Witness ==
  /\ document.phase = "extracted"
  /\ document.input.embedded =
       <<[width |-> 160, height |-> 250, readable |-> TRUE],
         [width |-> 200, height |-> 200, readable |-> TRUE]>>
  /\ document.image_count = 1
  /\ document.images = <<[width |-> 200, height |-> 200, readable |-> TRUE]>>

\* the services called, in call order
Services(calls) == [i \in 1..Len(calls) |-> calls[i].service]

\* C25: the dispatcher calls exactly the services of its strategy, in order:
\* TEXT_ONLY the text extraction service alone; IMAGE_LIGHT the renderer at
\* 250 DPI for all pages, then the vision service alone; IMAGE_HEAVY OCR over
\* the content images (without any, over all pages rendered at 300 DPI), then
\* the text extraction service; MIXED OCR over the content images, then the
\* text extraction service on the existing text followed by the OCR text.
C25_StrategyCalls ==
  document.phase = "done" =>
    LET pdf_type == document.output.metadata.pdf_type
        calls == document.output.calls
        n == Len(calls)
    IN /\ pdf_type = TEXT_ONLY =>
            Services(calls) = <<"extract_fields_from_text">>
       /\ pdf_type = IMAGE_LIGHT =>
            /\ Services(calls) = <<"render_all_pages_to_images", "extract_fields_from_images">>
            /\ calls[1].dpi = 250
       /\ (pdf_type = IMAGE_HEAVY /\ document.input.image_count > 0) =>
            /\ Services(calls) = <<"extract_text_from_images", "extract_fields_from_text">>
            /\ calls[1].images = "content_images"
            /\ calls[2].text = <<"ocr_text">>
       /\ (pdf_type = IMAGE_HEAVY /\ document.input.image_count = 0) =>
            /\ Services(calls) = <<"render_all_pages_to_images", "extract_text_from_images",
                                  "extract_fields_from_text">>
            /\ calls[1].dpi = 300
            /\ calls[2].images = "page_images"
            /\ calls[3].text = <<"ocr_text">>
       /\ pdf_type = MIXED =>
            /\ Services(calls) = <<"extract_text_from_images", "extract_fields_from_text">>
            /\ calls[1].images = "content_images"
            /\ calls[2].text = <<"text_content", "ocr_text">>
       /\ (document.output.result.method = "gemini_vision")
            <=> (calls[n].service = "extract_fields_from_images")

\* a scanned document of more than 5 pages without content images: all pages
\* are rendered at 300 DPI and read by OCR before the text service is called
C25_Witness ==
  /\ document.phase = "done"
  /\ document.output.metadata.pdf_type = IMAGE_HEAVY
  /\ document.input.image_count = 0
  /\ Len(document.output.calls) = 3
  /\ document.output.calls[1] = RenderCall(300)

\* C26: in every reachable state of a job, completed_at is set iff the status
\* is COMPLETED or FAILED, and error_message is set only if the status is
\* FAILED, whatever invocations of process_document the job has seen.
C26_CompletionFieldsMatchStatus ==
  \A j \in DOMAIN jobs :
    /\ (jobs[j].completed_at # NULL) <=> (jobs[j].status \in {COMPLETED, FAILED})
    /\ (jobs[j].error_message # NULL) => (jobs[j].status = FAILED)

\* C27: every job row upload_document committed has had exactly one
\* process_document message enqueued for it (pending or already taken by a
\* worker): no QUEUED job is left without a message, none is enqueued twice.
C27_NoOrphanedJob ==
  \A j \in DOMAIN jobs :
    /\ queue[j] + Len(tasks[j]) = 1
    /\ jobs[j].status = QUEUED => queue[j] = 1

\* C28: a job is never reported as a duplicate of itself: whenever job j runs
\* its duplicate check and no other job of the same user and file hash is
\* COMPLETED, the duplicate sub-score is 0 and there is no duplicate flag,
\* and the report never names j as the original; this also for a job that is
\* processed again after it completed.
C28_NoSelfDuplicate ==
  [][\A j \in DOMAIN jobs : \A a \in Attempts :
       Lookup(j, a) =>
         LET report == Report(jobs', j)
         IN /\ report.original_job_id # j
            /\ (\A k \in Twins(jobs, j) : jobs[k].status # COMPLETED)
                 => /\ report.risk_scores.duplicate = 0
                    /\ ~Flagged(report)]_vars

\* C29: for every row, is_edited holds iff edited_value is set, and
\* current_value is the edited value when is_edited and the original value
\* otherwise; no step changes the original_value of a row; and a successful
\* reset leaves the row with current_value = original_value.
C29_EditFlagMatchesValue ==
  /\ [](\A j \in DOMAIN extracted_fields : \A i \in 1..Len(extracted_fields[j]) :
         LET field == extracted_fields[j][i]
         IN /\ field.is_edited <=> (field.edited_value # NULL)
            /\ current_value(field) = (IF field.edited_value # NULL
                                       THEN field.edited_value
                                       ELSE field.original_value))
  /\ [][/\ \A j \in DOMAIN extracted_fields : \A i \in 1..Len(extracted_fields[j]) :
            (j \in DOMAIN extracted_fields' /\ i <= Len(extracted_fields'[j]))
              => extracted_fields'[j][i].original_value
                   = extracted_fields[j][i].original_value
        /\ (/\ response' # response
            /\ response'.endpoint = "reset_field"
            /\ response'.status_code = 200)
             => LET field == extracted_fields'[response'.field_id[1]][response'.field_id[2]]
                IN current_value(field) = field.original_value]_vars

\* a field was edited and then reset: the row shows its original value again
\* while another row of the job is still edited
C29_Witness ==
  /\ response = FieldReply("reset_field", <<1, 1>>, 200)
  /\ Len(extracted_fields[1]) >= 2
  /\ ~extracted_fields[1][1].is_edited
  /\ current_value(extracted_fields[1][1]) = extracted_fields[1][1].original_value
  /\ extracted_fields[1][2].is_edited
  /\ current_value(extracted_fields[1][2]) = "x"

\* C30: in every report of perform_full_analysis the flags list is empty iff
\* risk_score = 0: a sub-analysis with a non-zero sub-score contributes a
\* flag, and there is no flag when the four sub-scores are 0.
C30_FlagsIffRisk ==
  analysis.phase = "done" =>
    (analysis.report.flags = << >>) <=> (analysis.report.risk_score = 0)

====
